---- MODULE Spec2Model ----
(***************************************************************************)
(* Model of src/main.py: registry index parsing, reverse index, bounded    *)
(* cycle-detecting traversal (build_dependency_graph/build_reverse_graph), *)
(* ASCII tree rendering and the control flow of main().                    *)
(* Package names and strings are sequences of one-character strings.       *)
(***************************************************************************)
EXTENDS Integers, Sequences, FiniteSets, TLC

\* ---------------------------------------------------------------- bounds
MaxEdges == 3
MaxDepth == 2
MaxCycles == 20

\* ---------------------------------------------------------------- names
NA == <<"a">>
NB == <<"b">>
NC == <<"b", "c">>
ND == <<"d">>
Nodes == {NA, NB, NC}
AllNames == Nodes \cup {ND}
Filters == {<<>>, <<"c">>}

\* ---------------------------------------------------------------- helpers
Range(s) == {s[i] : i \in DOMAIN s}
CountIn(s, x) == Len(SelectSeq(s, LAMBDA y : y = x))
SeqUpTo(n) == UNION {[1..k -> Nodes] : k \in 0..n}
Perms(S) == {p \in [1..Cardinality(S) -> S] : \A i, j \in DOMAIN p : i # j => p[i] # p[j]}

\* Python `x in s` for strings
IsSubstr(f, s) == \E i \in 1..(Len(s) - Len(f) + 1) : SubSeq(s, i, i + Len(f) - 1) = f

\* `filter_substr and filter_substr in x`
Excluded(f, x) == f # <<>> /\ IsSubstr(f, x)

FilterListKeepAll(deps, f) == deps

\* [d for d in deps if not (filter_substr and filter_substr in d)]
FilterList(deps, f) == SelectSeq(deps, LAMBDA d : ~Excluded(f, d))

\* dict.get(name, []) on a map represented as [keys |-> K, val |-> V]
Get(m, n) == IF n \in m.keys THEN m.val[n] ELSE <<>>

EmptyMap == [keys |-> {}, val |-> [n \in AllNames |-> <<>>], order |-> <<>>]

RECURSIVE AddDepsDedup(_, _, _)
AddDepsDedup(rev, pkg, deps) ==
  IF deps = <<>> THEN rev
  ELSE LET d == Head(deps) IN
       AddDepsDedup([keys |-> rev.keys \cup {d},
                     val |-> [rev.val EXCEPT ![d] = IF pkg \in Range(@) THEN @ ELSE Append(@, pkg)]],
                    pkg, Tail(deps))

\* reverse.setdefault(dep, []).append(pkg) for every dep of pkg
RECURSIVE AddDeps(_, _, _)
AddDeps(rev, pkg, deps) ==
  IF deps = <<>> THEN rev
  ELSE LET d == Head(deps) IN
       AddDeps([keys |-> rev.keys \cup {d},
                val |-> [rev.val EXCEPT ![d] = Append(@, pkg)]], pkg, Tail(deps))

\* for pkg, deps in repo.items()  (dict insertion order, the registry's m.order)
RECURSIVE RevLoop(_, _, _)
RevLoop(rev, m, order) ==
  IF order = <<>> THEN rev
  ELSE LET p == Head(order) IN
       RevLoop(IF p \in m.keys THEN AddDeps(rev, p, m.val[p]) ELSE rev, m, Tail(order))

build_reverse_index(m) == RevLoop(EmptyMap, m, m.order)

\* ---------------------------------------------------------------- traversal pieces
DepthGuardOffByOne(d, m) == d > m + 1

\* if current_depth > max_depth: return
DepthGuard(d, m) == d > m

ChildPathNoSelf(path, node) == path

\* path.add(start_pkg) before the children receive path.copy()
ChildPath(path, node) == path \cup {node}

NextDepStuck(i) == i

\* the for loop over filtered_deps advances to the next dependency
NextDep(i) == i + 1

CallFrame(n, d, vis, pth) ==
  [kind |-> "call", node |-> n, depth |-> d, visited |-> vis, path |-> pth,
   deps |-> <<>>, i |-> 0]

VARIABLES
  repo,        \* forward registry index
  package,     \* --package
  reverse,     \* --reverse
  ascii,       \* --ascii
  maxDepth,    \* --max-depth
  filter,      \* --filter
  revRepo,     \* build_reverse_index(repo)
  nbr,         \* neighbor mapping handed to the traversal
  graph,       \* traversal graph
  cycles,      \* collected cycle records (each a sequence of names)
  stack,       \* traversal recursion stack
  expanded,    \* number of times each node was expanded (neighbors looked up)
  rvisited,    \* render-time visited set
  rstack,      \* render recursion stack
  out,         \* printed tree lines [node, ann, depth]
  pc,          \* position in main()
  exitCode,    \* process exit status
  outcome,     \* reported result kind
  pname,       \* parse_apkindex input: package name of the record
  dval,        \* parse_apkindex input: value of the record's D line
  xline,       \* parse_apkindex input: optional line after the D line
  parsed,      \* parse_apkindex result: set of [name, deps]
  ppc          \* "idle" before parse_apkindex ran, "parsed" after

mvars == <<repo, package, reverse, ascii, maxDepth, filter, revRepo, nbr, graph,
           cycles, stack, expanded, rvisited, rstack, out, pc, exitCode, outcome>>
pvars == <<pname, dval, xline, parsed, ppc>>
vars == <<mvars, pvars>>

\* registries with at most MaxEdges dependency entries in total; order is the
\* dict insertion order (the order of the packages in the registry file)
Repos ==
  UNION { UNION { UNION { UNION { { [keys |-> K,
                                     val |-> [x \in AllNames |-> CASE x = NA -> s1
                                                                  [] x = NB -> s2
                                                                  [] x = NC -> s3
                                                                  [] OTHER -> <<>>],
                                     order |-> o]
                                    : o \in Perms(K) }
                                : K \in {K2 \in SUBSET Nodes :
                                           /\ (s1 # <<>> => NA \in K2)
                                           /\ (s2 # <<>> => NB \in K2)
                                           /\ (s3 # <<>> => NC \in K2)} }
                        : s3 \in SeqUpTo(MaxEdges - Len(s1) - Len(s2)) }
                : s2 \in SeqUpTo(MaxEdges - Len(s1)) }
          : s1 \in SeqUpTo(MaxEdges) }

\* one file order per key set: a, b, bc restricted to the keys
CanonicalOrder(K) == SelectSeq(<<NA, NB, NC>>, LAMBDA x : x \in K)

\* repo.items() order is only read by build_reverse_index, whose result main()
\* uses only with --reverse; forward runs of every file order behave alike
Init ==
  /\ repo \in Repos
  /\ package \in AllNames
  /\ reverse \in BOOLEAN
  /\ ~reverse => repo.order = CanonicalOrder(repo.keys)
  /\ ascii \in BOOLEAN
  /\ maxDepth \in 1..MaxDepth
  /\ filter \in Filters
  /\ revRepo = EmptyMap
  /\ nbr = EmptyMap
  /\ graph = EmptyMap
  /\ cycles = <<>>
  /\ stack = <<>>
  /\ expanded = [n \in AllNames |-> 0]
  /\ rvisited = {}
  /\ rstack = <<>>
  /\ out = <<>>
  /\ pc = "check"
  /\ exitCode = 0
  /\ outcome = "none"
  /\ pname = <<"a">>
  /\ dval = <<>>
  /\ xline = <<>>
  /\ parsed = {}
  /\ ppc = "idle"

\* ---------------------------------------------------------------- main()
NotFoundFwdAnyDirection(pkg, keys, rev) == pkg \notin keys

\* if args.package not in repo and not args.reverse
NotFoundFwd(pkg, keys, rev) == pkg \notin keys /\ ~rev

CheckFwd ==
  /\ pc = "check"
  /\ IF NotFoundFwd(package, repo.keys, reverse)
       THEN /\ pc' = "done" /\ exitCode' = 1 /\ outcome' = "not_found"
       ELSE /\ pc' = "buildRev" /\ UNCHANGED <<exitCode, outcome>>
  /\ UNCHANGED <<repo, package, reverse, ascii, maxDepth, filter, revRepo, nbr,
                 graph, cycles, stack, expanded, rvisited, rstack, out>>

BuildRev ==
  /\ pc = "buildRev"
  /\ LET rv == build_reverse_index(repo) IN
     /\ revRepo' = rv
     /\ IF reverse /\ package \notin rv.keys
          THEN /\ pc' = "done" /\ exitCode' = 0 /\ outcome' = "nobody_depends"
               /\ UNCHANGED <<nbr, stack>>
          ELSE /\ nbr' = IF reverse THEN rv ELSE repo
               /\ stack' = <<CallFrame(package, 0, {}, {})>>
               /\ pc' = "traverse"
               /\ UNCHANGED <<exitCode, outcome>>
  /\ UNCHANGED <<repo, package, reverse, ascii, maxDepth, filter, graph, cycles,
                 expanded, rvisited, rstack, out>>

\* ---------------------------------------------------------------- traversal
\* one call of build_dependency_graph / build_reverse_graph up to its loop
Enter ==
  /\ pc = "traverse"
  /\ stack # <<>>
  /\ Len(cycles) < MaxCycles
  /\ LET f == stack[Len(stack)]
         popped == SubSeq(stack, 1, Len(stack) - 1)
         done == IF Len(stack) = 1 THEN "traversed" ELSE "traverse" IN
     /\ f.kind = "call"
     /\ IF DepthGuard(f.depth, maxDepth)
          THEN /\ stack' = popped /\ pc' = done
               /\ UNCHANGED <<graph, cycles, expanded>>
        ELSE IF f.node \in f.path
          THEN /\ \E p \in Perms(f.path) :
                    cycles' = Append(cycles, p \o <<f.node>>)
               /\ stack' = popped /\ pc' = done
               /\ UNCHANGED <<graph, expanded>>
        ELSE IF Excluded(filter, f.node)
          THEN /\ stack' = popped /\ pc' = done
               /\ UNCHANGED <<graph, cycles, expanded>>
        ELSE IF f.node \in f.visited
          THEN /\ stack' = popped /\ pc' = done
               /\ UNCHANGED <<graph, cycles, expanded>>
        ELSE LET fd == FilterList(Get(nbr, f.node), filter) IN
             /\ graph' = [keys |-> graph.keys \cup {f.node},
                          val |-> [graph.val EXCEPT ![f.node] = fd]]
             /\ expanded' = [expanded EXCEPT ![f.node] = @ + 1]
             /\ stack' = [stack EXCEPT ![Len(stack)] =
                            [kind |-> "run", node |-> f.node, depth |-> f.depth,
                             visited |-> f.visited \cup {f.node},
                             path |-> ChildPath(f.path, f.node),
                             deps |-> fd, i |-> 1]]
             /\ UNCHANGED <<cycles, pc>>
  /\ UNCHANGED <<repo, package, reverse, ascii, maxDepth, filter, revRepo, nbr,
                 rvisited, rstack, out, exitCode, outcome>>

\* one iteration of `for dep in filtered_deps`: recurse with copies
Step ==
  /\ pc = "traverse"
  /\ stack # <<>>
  /\ LET f == stack[Len(stack)] IN
     /\ f.kind = "run"
     /\ f.i <= Len(f.deps)
     /\ stack' = Append([stack EXCEPT ![Len(stack)].i = NextDep(f.i)],
                        CallFrame(f.deps[f.i], f.depth + 1, f.visited, f.path))
  /\ UNCHANGED <<repo, package, reverse, ascii, maxDepth, filter, revRepo, nbr,
                 graph, cycles, expanded, rvisited, rstack, out, pc, exitCode, outcome>>

\* end of the loop: path.remove(start_pkg); return graph, cycles
Return ==
  /\ pc = "traverse"
  /\ stack # <<>>
  /\ LET f == stack[Len(stack)] IN
     /\ f.kind = "run"
     /\ f.i > Len(f.deps)
     /\ stack' = SubSeq(stack, 1, Len(stack) - 1)
     /\ pc' = IF Len(stack) = 1 THEN "traversed" ELSE "traverse"
  /\ UNCHANGED <<repo, package, reverse, ascii, maxDepth, filter, revRepo, nbr,
                 graph, cycles, expanded, rvisited, rstack, out, exitCode, outcome>>

TravNext == Enter \/ Step \/ Return

\* cycles are printed (set-deduplicated); then either the tree or a notice
Present ==
  /\ pc = "traversed"
  /\ pc' = IF ascii THEN "render" ELSE "finish"
  /\ UNCHANGED <<repo, package, reverse, ascii, maxDepth, filter, revRepo, nbr,
                 graph, cycles, stack, expanded, rvisited, rstack, out, exitCode, outcome>>

\* ---------------------------------------------------------------- rendering
\* if depth > max_depth: return   (in _print_ascii_tree)
RDepthGuard(d, m) == d > m

Line(k, n, d) == [kind |-> k, node |-> n, depth |-> d]

RFrame(k, n, d, ch) == [kind |-> k, node |-> n, depth |-> d, children |-> ch, i |-> 1]

\* print_ascii_tree: print the start, then either loop over its children
\* or print the "(no dependencies)" placeholder
RStart ==
  /\ pc = "render"
  /\ IF package \in graph.keys /\ graph.val[package] # <<>>
       THEN /\ out' = <<Line("node", package, 0)>>
            /\ rvisited' = rvisited \cup {package}
            /\ rstack' = <<RFrame("top", package, 0, graph.val[package])>>
            /\ pc' = "rendering"
       ELSE /\ out' = <<Line("node", package, 0), Line("empty", <<>>, 1)>>
            /\ pc' = "finish"
            /\ UNCHANGED <<rvisited, rstack>>
  /\ UNCHANGED <<repo, package, reverse, ascii, maxDepth, filter, revRepo, nbr,
                 graph, cycles, stack, expanded, exitCode, outcome>>

\* entry of _print_ascii_tree: depth guard, print the node, fetch children
REnter ==
  /\ pc = "rendering"
  /\ rstack # <<>>
  /\ LET f == rstack[Len(rstack)] IN
     /\ f.kind = "call"
     /\ IF RDepthGuard(f.depth, maxDepth)
          THEN /\ rstack' = SubSeq(rstack, 1, Len(rstack) - 1)
               /\ UNCHANGED out
          ELSE /\ out' = Append(out, Line("node", f.node, f.depth))
               /\ rstack' = [rstack EXCEPT ![Len(rstack)] =
                               RFrame("run", f.node, f.depth, Get(graph, f.node))]
  /\ UNCHANGED <<repo, package, reverse, ascii, maxDepth, filter, revRepo, nbr,
                 graph, cycles, stack, expanded, rvisited, pc, exitCode, outcome>>

\* one child: in print_ascii_tree the child is rendered unconditionally; in
\* _print_ascii_tree a visited child is printed "already shown above",
\* otherwise it is added to visited and rendered recursively
RStep ==
  /\ pc = "rendering"
  /\ rstack # <<>>
  /\ LET f == rstack[Len(rstack)]
         c == f.children[f.i]
         adv == [rstack EXCEPT ![Len(rstack)].i = f.i + 1] IN
     /\ f.kind \in {"top", "run"}
     /\ f.i <= Len(f.children)
     /\ IF f.kind = "top"
          THEN /\ rstack' = Append(adv, RFrame("call", c, f.depth + 1, <<>>))
               /\ UNCHANGED <<rvisited, out>>
        ELSE IF c \in rvisited
          THEN /\ out' = Append(out, Line("seen", c, f.depth + 1))
               /\ rstack' = adv
               /\ UNCHANGED rvisited
          ELSE /\ rvisited' = rvisited \cup {c}
               /\ rstack' = Append(adv, RFrame("call", c, f.depth + 1, <<>>))
               /\ UNCHANGED out
  /\ UNCHANGED <<repo, package, reverse, ascii, maxDepth, filter, revRepo, nbr,
                 graph, cycles, stack, expanded, pc, exitCode, outcome>>

RReturn ==
  /\ pc = "rendering"
  /\ rstack # <<>>
  /\ LET f == rstack[Len(rstack)] IN
     /\ f.kind \in {"top", "run"}
     /\ f.i > Len(f.children)
     /\ rstack' = SubSeq(rstack, 1, Len(rstack) - 1)
     /\ pc' = IF Len(rstack) = 1 THEN "finish" ELSE "rendering"
  /\ UNCHANGED <<repo, package, reverse, ascii, maxDepth, filter, revRepo, nbr,
                 graph, cycles, stack, expanded, rvisited, out, exitCode, outcome>>

RenderNext == RStart \/ REnter \/ RStep \/ RReturn

\* print("\nЭтап 4 завершён успешно."); normal exit
Finish ==
  /\ pc = "finish"
  /\ pc' = "done"
  /\ exitCode' = 0
  /\ outcome' = "ok"
  /\ UNCHANGED <<repo, package, reverse, ascii, maxDepth, filter, revRepo, nbr,
                 graph, cycles, stack, expanded, rvisited, rstack, out>>

Next == (CheckFwd \/ BuildRev \/ TravNext \/ Present \/ RenderNext \/ Finish)
        /\ UNCHANGED pvars

Spec == Init /\ [][Next]_vars

\* runs that render the tree of a package of the registry universe, one file
\* order per key set (every reordered reverse index is itself a registry of Repos)
LiveInit == Init /\ ascii /\ package \in Nodes /\ repo.order = CanonicalOrder(repo.keys)

LiveSpec == LiveInit /\ [][Next]_vars /\ WF_vars(Next)

\* ---------------------------------------------------------------- parse_apkindex
MaxValLen == 4
ValChars == {"a", ":", "=", " "}
Values == UNION {[1..k -> ValChars] : k \in 0..MaxValLen}

FirstIdx(s, c) == CHOOSE i \in DOMAIN s : s[i] = c /\ \A j \in 1..(i - 1) : s[j] # c

\* str.strip() (the only whitespace character in the alphabet is " ")
RECURSIVE LStrip(_)
LStrip(s) == IF s # <<>> /\ Head(s) = " " THEN LStrip(Tail(s)) ELSE s
RECURSIVE RStrip(_)
RStrip(s) == IF s # <<>> /\ s[Len(s)] = " " THEN RStrip(SubSeq(s, 1, Len(s) - 1)) ELSE s
Strip(s) == RStrip(LStrip(s))

\* str.split() without arguments: runs of whitespace separate, no empty tokens
RECURSIVE SplitWS(_)
SplitWS(s) ==
  LET t == LStrip(s) IN
  IF t = <<>> THEN <<>>
  ELSE IF " " \in Range(t)
    THEN LET k == FirstIdx(t, " ") IN
         <<SubSeq(t, 1, k - 1)>> \o SplitWS(SubSeq(t, k, Len(t)))
    ELSE <<t>>

\* dep.split(':', 1)[-1] if ':' in dep else dep ; then .split('=')[0]
CleanDep(dep) ==
  LET t1 == IF ":" \in Range(dep) THEN SubSeq(dep, FirstIdx(dep, ":") + 1, Len(dep)) ELSE dep
  IN IF "=" \in Range(t1) THEN SubSeq(t1, 1, FirstIdx(t1, "=") - 1) ELSE t1

\* the D branch: keep clean_dep if non-empty and not the current package name
RECURSIVE DepsOf(_, _)
DepsOf(toks, cur) ==
  IF toks = <<>> THEN <<>>
  ELSE LET c == CleanDep(Head(toks))
           rest == DepsOf(Tail(toks), cur) IN
       IF c # <<>> /\ c # cur THEN <<c>> \o rest ELSE rest

\* parser state: packages, current_pkg, current_name.  current_pkg['depends'] is
\* either the list built by a D line (isStr FALSE, deps) or, after a line whose
\* key is literally "depends", that line's raw value string (isStr TRUE, raw)
PState(pk, hasP, hasD, isStr, deps, raw, name) ==
  [pk |-> pk, hasP |-> hasP, hasD |-> hasD, isStr |-> isStr, deps |-> deps,
   raw |-> raw, name |-> name]

\* packages[current_name] = current_pkg.get('depends', []) when the record has a name;
\* packages is a set of [name, isStr, deps, raw]
Commit(st) ==
  IF st.name # <<>> /\ st.hasP
    THEN {r \in st.pk : r.name # st.name} \cup
         {[name |-> st.name, isStr |-> st.hasD /\ st.isStr,
           deps |-> IF st.hasD /\ ~st.isStr THEN st.deps ELSE <<>>,
           raw |-> IF st.hasD /\ st.isStr THEN st.raw ELSE <<>>]}
    ELSE st.pk

DependsKey == <<"d", "e", "p", "e", "n", "d", "s">>

\* one iteration of `for line in lines` (current_name None is the empty name)
ParseLine(st, raw) ==
  LET line == Strip(raw) IN
  IF line = <<>> THEN PState(Commit(st), FALSE, FALSE, FALSE, <<>>, <<>>, <<>>)
  ELSE IF ":" \notin Range(line) THEN st
  ELSE LET k == FirstIdx(line, ":")
           key == SubSeq(line, 1, k - 1)
           value == Strip(SubSeq(line, k + 1, Len(line))) IN
       IF key = <<"P">> THEN PState(st.pk, TRUE, FALSE, FALSE, <<>>, <<>>, value)
       ELSE IF key = <<"D">>
         THEN PState(st.pk, st.hasP, TRUE, FALSE, DepsOf(SplitWS(value), st.name), <<>>, st.name)
       \* current_pkg[key] = value: of these keys only "depends" is ever read back
       ELSE IF key = DependsKey
         THEN PState(st.pk, st.hasP, TRUE, TRUE, <<>>, value, st.name)
       ELSE st

RECURSIVE ParseLines(_, _)
ParseLines(st, ls) == IF ls = <<>> THEN st ELSE ParseLines(ParseLine(st, Head(ls)), Tail(ls))

\* text.splitlines() of a record "P:<name>\nD:<value>\n<extra line>"
RecordLines(n, v, x) ==
  << <<"P", ":">> \o n, <<"D", ":">> \o v >> \o (IF x = <<>> THEN <<>> ELSE <<x>>)

parse_apkindex(ls) == Commit(ParseLines(PState({}, FALSE, FALSE, FALSE, <<>>, <<>>, <<>>), ls))

\* optional third line: none, "depends:a a", or an uninterpreted key "V:a"
DependsLine == DependsKey \o <<":", "a", " ", "a">>
XLines == {<<>>, DependsLine, <<"V", ":", "a">>}

ParseInit ==
  /\ repo = EmptyMap /\ package = NA /\ reverse = FALSE /\ ascii = FALSE
  /\ maxDepth = 1 /\ filter = <<>> /\ revRepo = EmptyMap /\ nbr = EmptyMap
  /\ graph = EmptyMap /\ cycles = <<>> /\ stack = <<>>
  /\ expanded = [n \in AllNames |-> 0] /\ rvisited = {} /\ rstack = <<>>
  /\ out = <<>> /\ pc = "check" /\ exitCode = 0 /\ outcome = "none"
  /\ pname \in {<<"a">>, <<"a", "a">>}
  /\ dval \in Values
  /\ xline \in XLines
  /\ parsed = {}
  /\ ppc = "idle"

Parse ==
  /\ ppc = "idle"
  /\ parsed' = parse_apkindex(RecordLines(pname, dval, xline))
  /\ ppc' = "parsed"
  /\ UNCHANGED <<pname, dval, xline>>

ParseNext == Parse /\ UNCHANGED mvars

ParseSpec == ParseInit /\ [][ParseNext]_vars

\* ================================================================ properties
AfterTraversal == pc \in {"traversed", "render", "rendering", "finish"} \/ (pc = "done" /\ outcome = "ok")

RECURSIVE ReachFrom(_, _)
ReachFrom(S, k) ==
  IF k = 0 THEN S
  ELSE ReachFrom(S \cup UNION {Range(Get(nbr, x)) : x \in S}, k - 1)

Ancestors == {stack[j].node : j \in 1..(Len(stack) - 1)}

ExampleRepo ==
  [keys |-> {NA, NB},
   val |-> [x \in AllNames |-> IF x = NA THEN <<NB>> ELSE IF x = NB THEN <<NA>> ELSE <<>>]]

IsExampleRepo == [keys |-> repo.keys, val |-> repo.val] = ExampleRepo

\* C1: in a rendered tree every node other than the start is printed expanded
\* at most once; later occurrences are printed as "already shown above" leaves.
C1_RenderedOnce ==
  \A n \in AllNames \ {package} :
    Cardinality({i \in DOMAIN out : out[i].kind = "node" /\ out[i].node = n}) <= 1

\* C2: within one traversal each node is expanded (neighbors looked up, entry
\* written, children visited) at most once.
C2_ExpandedOnce == \A n \in AllNames : expanded[n] <= 1

\* C3: with a non-empty filter no name containing it is a key or a neighbor in the graph.
C3_FilterExcluded ==
  filter # <<>> =>
    \A k \in graph.keys :
      /\ ~Excluded(filter, k)
      /\ \A i \in DOMAIN graph.val[k] : ~Excluded(filter, graph.val[k][i])

C3_Witness ==
  /\ AfterTraversal
  /\ filter # <<>>
  /\ \E k \in graph.keys : \E i \in DOMAIN Get(nbr, k) : Excluded(filter, Get(nbr, k)[i])

\* C4: every key of the graph is reachable from the start in at most max_depth steps.
C4_DepthBound == graph.keys \subseteq ReachFrom({package}, maxDepth)

C4_Witness ==
  /\ AfterTraversal
  /\ graph.keys # {}
  /\ ReachFrom({package}, maxDepth + 1) # ReachFrom({package}, maxDepth)

\* C5: a cycle record is produced exactly when the traversal follows an edge, at
\* depth <= max_depth, to a node on the current ancestor chain; for {A:[B],B:[A]}
\* from A with max_depth >= 2 a record mentions A and B and graph[A] = [B].
C5_CyclePathScoped ==
  /\ [][ (pc = "traverse" /\ stack # <<>> /\ stack[Len(stack)].kind = "call")
         => (Len(cycles') = Len(cycles) + 1
             <=> (stack[Len(stack)].depth <= maxDepth /\ stack[Len(stack)].node \in Ancestors)) ]_vars
  /\ [] ((IsExampleRepo /\ package = NA /\ ~reverse /\ maxDepth >= 2
          /\ filter = <<>> /\ AfterTraversal)
         => /\ cycles # <<>>
            /\ \A k \in DOMAIN cycles : {NA, NB} \subseteq Range(cycles[k])
            /\ NA \in graph.keys /\ graph.val[NA] = <<NB>>)

C5_Witness ==
  /\ IsExampleRepo /\ package = NA /\ ~reverse /\ maxDepth = 2
  /\ filter = <<>> /\ AfterTraversal /\ cycles # <<>>

\* C6: each cycle record is a chain whose consecutive names are edges of the
\* neighbor mapping, ending with the repeated node.
C6_CycleChain ==
  \A k \in DOMAIN cycles :
    \A i \in 1..(Len(cycles[k]) - 1) : cycles[k][i + 1] \in Range(Get(nbr, cycles[k][i]))

\* C7: inverting the reverse index gives back the forward (package, dependency)
\* pairs with multiplicity, and no key maps to an empty list.
\* states right after BuildRev (revRepo is never written again)
RevBuilt ==
  \/ pc = "traverse" /\ Len(stack) = 1 /\ stack[1].kind = "call"
  \/ pc = "done" /\ outcome = "nobody_depends"

C7_ReverseRoundTrip ==
  RevBuilt =>
    /\ \A p \in AllNames, d \in AllNames : CountIn(Get(revRepo, d), p) = CountIn(Get(repo, p), d)
    /\ \A d \in revRepo.keys : revRepo.val[d] # <<>>

C7_Witness ==
  /\ RevBuilt
  /\ \E p \in Nodes, d \in Nodes : CountIn(Get(repo, p), d) >= 2

\* C8: a D token keeps the segment after its last ':' and is cut at the first '=';
\* empty results and the record's own name are dropped, order is kept.
LastIdx(s, c) == CHOOSE i \in DOMAIN s : s[i] = c /\ \A j \in (i + 1)..Len(s) : s[j] # c

ClaimClean(dep) ==
  LET t1 == IF ":" \in Range(dep) THEN SubSeq(dep, LastIdx(dep, ":") + 1, Len(dep)) ELSE dep
  IN IF "=" \in Range(t1) THEN SubSeq(t1, 1, FirstIdx(t1, "=") - 1) ELSE t1

RECURSIVE ClaimDeps(_, _)
ClaimDeps(toks, n) ==
  IF toks = <<>> THEN <<>>
  ELSE LET c == ClaimClean(Head(toks))
           rest == ClaimDeps(Tail(toks), n) IN
       IF c # <<>> /\ c # n THEN <<c>> \o rest ELSE rest

C8_DepNormalization ==
  (ppc = "parsed" /\ xline # DependsLine)
    => parsed = {[name |-> pname, isStr |-> FALSE,
                  deps |-> ClaimDeps(SplitWS(dval), pname), raw |-> <<>>]}

\* C9: reverse lookup of a package nobody depends on ends informationally with
\* exit 0; forward lookup of an unknown package ends with an error, exit 1.
C9_LookupErrors ==
  /\ (pc = "done" /\ reverse /\ package \notin build_reverse_index(repo).keys)
       => (exitCode = 0 /\ outcome = "nobody_depends")
  /\ (pc = "done" /\ ~reverse /\ package \notin repo.keys)
       => (exitCode = 1 /\ outcome = "not_found")

C9_Witness == pc = "done" /\ outcome = "nobody_depends" /\ package \notin repo.keys

\* C10: traversal and rendering terminate for every bounded input.
C10_Terminates == <>(pc = "done")

C10_Witness ==
  /\ pc = "done" /\ outcome = "ok" /\ ascii /\ cycles # <<>>
  /\ \E i \in DOMAIN out : out[i].kind = "seen"

====
